---- MODULE Spec2Model ----
(***************************************************************************)
(* A model of SpinCell<T> (src/src/lib.rs): a single-slot cell guarded by  *)
(* a spin lock (`lock`) and a publication flag (`is_initialized`).         *)
(*                                                                         *)
(* Every atomic access of the source is one step of the model; the         *)
(* non-atomic slot accesses (drop_in_place, ptr::write, the read through   *)
(* the reference returned by deref) are steps of their own, so that every  *)
(* interleaving of the threads' accesses is explored.  Atomics are         *)
(* sequentially consistent in the model.                                   *)
(***************************************************************************)
EXTENDS Integers, FiniteSets

(* ---------------------------- bounds ---------------------------------- *)
\* number of threads sharing the cell
NumThreads == 2
\* total number of calls (force_initialize, try_initialize, deref) started
MaxCalls == 3
\* suppliers return a value in 1..MaxVal
MaxVal == 2

Threads == 1..NumThreads
Values == 1..MaxVal
\* one instance id per value ever put in the slot: new() plus one per call
Ids == 1..(MaxCalls + 1)
VARIABLES
    \* ---- the fields of SpinCell ----
    lock,            \* AtomicBool
    is_initialized,  \* AtomicBool
    cell,            \* MaybeUninit<UnsafeCell<T>>: [state, id, val]
    alive,           \* FALSE once the SpinCell itself has gone out of scope
    \* ---- per thread: the call in progress and its locals ----
    pc,              \* position in the current call, "idle" between calls
    op,              \* "none" | "force" | "try" | "deref": current / last call
    arg,             \* the value the call's supplier (init_func) returns
    wasInit,         \* what is_initialized.swap(false) returned
    newcell,         \* the local `newcell`, 0 until init_func() has returned
    seen,            \* what the call's load of is_initialized returned
    result,          \* outcome of the last call
    got,             \* value read through the reference deref returned
    \* ---- history (not program state) ----
    drops,           \* drops[i]: how often instance i was dropped
    nextId,          \* next fresh instance id
    initKind,        \* "new" | "uninit": how the cell was constructed
    calls,           \* calls started so far
    forceStarted,    \* force_initialize calls started by callers
    supplierRuns,    \* supplier invocations, over all calls
    okReturns,       \* try_initialize calls that returned Ok
    published,       \* TRUE once the cell has been initialized at least once
    epoch,           \* number of lock acquisitions so far
    ep,              \* ep[t]: epoch when t's call released the lock / read
    afterOk,         \* afterOk[t]: t's call started after some Ok return
    oldId,           \* oldId[t]: instance in the slot when t's swap ran
    ranSupplier,     \* ranSupplier[t]: t's current call invoked its supplier
    tally,           \* tally[t]: supplier runs, slot writes and publishes of
                     \* t's current call
    outer            \* outer[t]: where t's outer call stands while t runs a
                     \* call made from inside it ("none": no such call)

vars == <<lock, is_initialized, cell, alive, pc, op, arg, wasInit, newcell,
          seen, result, got, drops, nextId, initKind, calls, forceStarted,
          supplierRuns, okReturns, published, epoch, ep, afterOk, oldId,
          ranSupplier, tally, outer>>

\* variable groups, for UNCHANGED
locals == <<arg, wasInit, newcell, seen, got>>
counters == <<calls, forceStarted, supplierRuns, okReturns>>
hist == <<drops, nextId, initKind, published, epoch, ep, afterOk, oldId,
          ranSupplier, tally, outer>>

(* ------------------------- construction ------------------------------- *)
\* a call that has not run a supplier, written the slot or published
NoTally == [runs |-> 0, writes |-> 0, pubs |-> 0]

EmptySlot == [state |-> "uninit", id |-> 0, val |-> 0]

\* New leaving the flag false, as uninit() does
NewUnpublished(data) ==
    /\ lock = FALSE
    /\ is_initialized = FALSE
    /\ cell = [state |-> "live", id |-> 1, val |-> data]
    /\ nextId = 2
    /\ initKind = "new"
    /\ published = TRUE

\* SpinCell::new(data)
New(data) ==
    /\ lock = FALSE
    /\ is_initialized = TRUE
    /\ cell = [state |-> "live", id |-> 1, val |-> data]
    /\ nextId = 2
    /\ initKind = "new"
    /\ published = TRUE

\* SpinCell::uninit()
Uninit ==
    /\ lock = FALSE
    /\ is_initialized = FALSE
    /\ cell = EmptySlot
    /\ nextId = 1
    /\ initKind = "uninit"
    /\ published = FALSE

Init ==
    /\ (Uninit \/ \E data \in Values : New(data))
    /\ alive = TRUE
    /\ pc = [t \in Threads |-> "idle"]
    /\ op = [t \in Threads |-> "none"]
    /\ arg = [t \in Threads |-> 0]
    /\ wasInit = [t \in Threads |-> FALSE]
    /\ newcell = [t \in Threads |-> 0]
    /\ seen = [t \in Threads |-> FALSE]
    /\ result = [t \in Threads |-> "none"]
    /\ got = [t \in Threads |-> 0]
    /\ drops = [i \in Ids |-> 0]
    /\ calls = 0
    /\ forceStarted = 0
    /\ supplierRuns = 0
    /\ okReturns = 0
    /\ epoch = 0
    /\ ep = [t \in Threads |-> 0]
    /\ afterOk = [t \in Threads |-> FALSE]
    /\ oldId = [t \in Threads |-> 0]
    /\ ranSupplier = [t \in Threads |-> FALSE]
    /\ tally = [t \in Threads |-> NoTally]
    /\ outer = [t \in Threads |-> "none"]

(* --------------------------- call entry ------------------------------- *)
\* what every call entry does to the thread's locals and history
Enter(t, kind, v) ==
    /\ alive
    /\ pc[t] = "idle"
    /\ calls < MaxCalls
    /\ calls' = calls + 1
    /\ op' = [op EXCEPT ![t] = kind]
    /\ arg' = [arg EXCEPT ![t] = v]
    /\ wasInit' = [wasInit EXCEPT ![t] = FALSE]
    /\ newcell' = [newcell EXCEPT ![t] = 0]
    /\ seen' = [seen EXCEPT ![t] = FALSE]
    /\ result' = [result EXCEPT ![t] = "none"]
    /\ got' = [got EXCEPT ![t] = 0]
    /\ afterOk' = [afterOk EXCEPT ![t] = okReturns > 0]
    /\ oldId' = [oldId EXCEPT ![t] = 0]
    /\ ep' = [ep EXCEPT ![t] = 0]
    /\ ranSupplier' = [ranSupplier EXCEPT ![t] = FALSE]
    /\ tally' = [tally EXCEPT ![t] = NoTally]
    /\ UNCHANGED <<lock, is_initialized, cell, alive, drops, nextId, initKind,
                   supplierRuns, okReturns, published, epoch, outer>>

\* a caller invokes cell.force_initialize(|| v)
CallForce(t) ==
    \E v \in Values :
        /\ Enter(t, "force", v)
        /\ pc' = [pc EXCEPT ![t] = "lock"]
        /\ forceStarted' = forceStarted + 1

\* a caller invokes cell.try_initialize(|| v)
CallTry(t) ==
    \E v \in Values :
        /\ Enter(t, "try", v)
        /\ pc' = [pc EXCEPT ![t] = "try_load"]
        /\ UNCHANGED forceStarted

\* a caller evaluates *cell
CallDeref(t) ==
    /\ Enter(t, "deref", 0)
    /\ pc' = [pc EXCEPT ![t] = "deref_load"]
    /\ UNCHANGED forceStarted

(* ------------------------ force_initialize ---------------------------- *)
\* AcquireLock as a plain store(true) that does not look at the lock
AcquireLockUnguarded(t) ==
    /\ pc[t] = "lock"
    /\ lock' = TRUE
    /\ epoch' = epoch + 1
    /\ pc' = [pc EXCEPT ![t] = "swap"]
    /\ UNCHANGED <<is_initialized, cell, alive, op, result, locals, counters,
                   drops, nextId, initKind, published, ep, afterOk, oldId,
                   ranSupplier, tally, outer>>

\* lib.rs 40-46: the compare_exchange(false, true) that succeeds.  A failed
\* compare_exchange and the spin_loop() hint change nothing: the thread
\* stays at "lock", which is a stuttering step.
AcquireLock(t) ==
    /\ pc[t] = "lock"
    /\ lock = FALSE
    /\ lock' = TRUE
    /\ epoch' = epoch + 1
    /\ pc' = [pc EXCEPT ![t] = "swap"]
    /\ UNCHANGED <<is_initialized, cell, alive, op, result, locals, counters,
                   drops, nextId, initKind, published, ep, afterOk, oldId,
                   ranSupplier, tally, outer>>

\* SwapInitialized taking the drop branch whatever the flag was
SwapInitializedAlwaysDrops(t) ==
    /\ pc[t] = "swap"
    /\ wasInit' = [wasInit EXCEPT ![t] = is_initialized]
    /\ is_initialized' = FALSE
    /\ oldId' = [oldId EXCEPT ![t] = IF is_initialized THEN cell.id ELSE 0]
    /\ pc' = [pc EXCEPT ![t] = "drop"]
    /\ UNCHANGED <<lock, cell, alive, op, result, arg, newcell, seen, got,
                   counters, drops, nextId, initKind, published, epoch, ep,
                   afterOk, ranSupplier, tally, outer>>

\* SwapInitialized as a load: the flag is read but not cleared
SwapInitializedKeepsFlag(t) ==
    /\ pc[t] = "swap"
    /\ wasInit' = [wasInit EXCEPT ![t] = is_initialized]
    /\ is_initialized' = is_initialized
    /\ oldId' = [oldId EXCEPT ![t] = IF is_initialized THEN cell.id ELSE 0]
    /\ pc' = [pc EXCEPT ![t] = IF is_initialized THEN "drop" ELSE "supplier"]
    /\ UNCHANGED <<lock, cell, alive, op, result, arg, newcell, seen, got,
                   counters, drops, nextId, initKind, published, epoch, ep,
                   afterOk, ranSupplier, tally, outer>>

\* lib.rs 52: is_initialized.swap(false, AcqRel)
SwapInitialized(t) ==
    /\ pc[t] = "swap"
    /\ wasInit' = [wasInit EXCEPT ![t] = is_initialized]
    /\ is_initialized' = FALSE
    /\ oldId' = [oldId EXCEPT ![t] = IF is_initialized THEN cell.id ELSE 0]
    /\ pc' = [pc EXCEPT ![t] = IF is_initialized THEN "drop" ELSE "supplier"]
    /\ UNCHANGED <<lock, cell, alive, op, result, arg, newcell, seen, got,
                   counters, drops, nextId, initKind, published, epoch, ep,
                   afterOk, ranSupplier, tally, outer>>

\* DropOld without the drop_in_place: the old value is overwritten, not dropped
DropOldLeaks(t) ==
    /\ pc[t] = "drop"
    /\ pc' = [pc EXCEPT ![t] = "supplier"]
    /\ UNCHANGED <<lock, is_initialized, cell, alive, op, result, locals,
                   counters, drops, nextId, initKind, published, epoch, ep,
                   afterOk, oldId, ranSupplier, tally, outer>>

\* lib.rs 53-60: drop_in_place of the slot's content
DropOld(t) ==
    /\ pc[t] = "drop"
    /\ cell' = [cell EXCEPT !.state = "dropped"]
    /\ drops' = IF cell.id \in Ids
                THEN [drops EXCEPT ![cell.id] = @ + 1]
                ELSE drops
    /\ pc' = [pc EXCEPT ![t] = "supplier"]
    /\ UNCHANGED <<lock, is_initialized, alive, op, result, locals, counters,
                   nextId, initKind, published, epoch, ep, afterOk, oldId,
                   ranSupplier, tally, outer>>

\* lib.rs 64: init_func() returns its value
SupplierReturns(t) ==
    /\ pc[t] = "supplier"
    /\ newcell' = [newcell EXCEPT ![t] = arg[t]]
    /\ supplierRuns' = supplierRuns + 1
    /\ ranSupplier' = [ranSupplier EXCEPT ![t] = TRUE]
    /\ tally' = [tally EXCEPT ![t].runs = @ + 1]
    /\ pc' = [pc EXCEPT ![t] = "write"]
    /\ UNCHANGED <<lock, is_initialized, cell, alive, op, result, arg, wasInit,
                   seen, got, calls, forceStarted, okReturns, drops, nextId,
                   initKind, published, epoch, ep, afterOk, oldId, outer>>

\* lib.rs 64: init_func() panics; the unwinding leaves force_initialize (and
\* try_initialize) at once: no statement after line 64 runs, and nothing in
\* scope has a destructor that would touch the cell.
SupplierPanics(t) ==
    /\ pc[t] = "supplier"
    /\ supplierRuns' = supplierRuns + 1
    /\ ranSupplier' = [ranSupplier EXCEPT ![t] = TRUE]
    /\ tally' = [tally EXCEPT ![t].runs = @ + 1]
    /\ result' = [result EXCEPT ![t] = "SupplierPanic"]
    /\ pc' = [pc EXCEPT ![t] = "idle"]
    /\ UNCHANGED <<lock, is_initialized, cell, alive, op, locals, calls,
                   forceStarted, okReturns, drops, nextId, initKind, published,
                   epoch, ep, afterOk, oldId, outer>>

\* WriteSlot without the ptr::write: the slot keeps what it held
WriteSlotSkipped(t) ==
    /\ pc[t] = "write"
    /\ cell' = cell
    /\ nextId' = nextId + 1
    /\ tally' = [tally EXCEPT ![t].writes = @ + 1]
    /\ pc' = [pc EXCEPT ![t] = "publish"]
    /\ UNCHANGED <<lock, is_initialized, alive, op, result, locals, counters,
                   drops, initKind, published, epoch, ep, afterOk, oldId,
                   ranSupplier, outer>>

\* lib.rs 65-69: ptr::write(ptr, newcell)
WriteSlot(t) ==
    /\ pc[t] = "write"
    /\ cell' = [state |-> "live", id |-> nextId, val |-> newcell[t]]
    /\ nextId' = nextId + 1
    /\ tally' = [tally EXCEPT ![t].writes = @ + 1]
    /\ pc' = [pc EXCEPT ![t] = "publish"]
    /\ UNCHANGED <<lock, is_initialized, alive, op, result, locals, counters,
                   drops, initKind, published, epoch, ep, afterOk, oldId,
                   ranSupplier, outer>>

\* Publish storing false instead of true
PublishStoresFalse(t) ==
    /\ pc[t] = "publish"
    /\ is_initialized' = FALSE
    /\ published' = TRUE
    /\ tally' = [tally EXCEPT ![t].pubs = @ + 1]
    /\ pc' = [pc EXCEPT ![t] = "unlock"]
    /\ UNCHANGED <<lock, cell, alive, op, result, locals, counters, drops,
                   nextId, initKind, epoch, ep, afterOk, oldId, ranSupplier, outer>>

\* lib.rs 70: is_initialized.store(true, Release)
Publish(t) ==
    /\ pc[t] = "publish"
    /\ is_initialized' = TRUE
    /\ published' = TRUE
    /\ tally' = [tally EXCEPT ![t].pubs = @ + 1]
    /\ pc' = [pc EXCEPT ![t] = "unlock"]
    /\ UNCHANGED <<lock, cell, alive, op, result, locals, counters, drops,
                   nextId, initKind, epoch, ep, afterOk, oldId, ranSupplier, outer>>

\* ReleaseLock without the lock.store(false): the call returns, lock held
ReleaseLockForgets(t) ==
    /\ pc[t] = "unlock"
    /\ lock' = lock
    /\ ep' = [ep EXCEPT ![t] = epoch]
    /\ result' = [result EXCEPT ![t] = IF op[t] = "try" THEN "Ok" ELSE "unit"]
    /\ okReturns' = IF op[t] = "try" THEN okReturns + 1 ELSE okReturns
    /\ pc' = [pc EXCEPT ![t] = "idle"]
    /\ UNCHANGED <<is_initialized, cell, alive, op, locals, calls,
                   forceStarted, supplierRuns, drops, nextId, initKind,
                   published, epoch, afterOk, oldId, ranSupplier, tally,
                   outer>>

\* lib.rs 73: lock.store(false, Release), and the return: of force_initialize
\* itself, or of the try_initialize that called it (lib.rs 88-89, Ok(()))
ReleaseLock(t) ==
    /\ pc[t] = "unlock"
    /\ lock' = FALSE
    /\ ep' = [ep EXCEPT ![t] = epoch]
    /\ result' = [result EXCEPT ![t] = IF op[t] = "try" THEN "Ok" ELSE "unit"]
    /\ okReturns' = IF op[t] = "try" THEN okReturns + 1 ELSE okReturns
    /\ pc' = [pc EXCEPT ![t] = "idle"]
    /\ UNCHANGED <<is_initialized, cell, alive, op, locals, calls,
                   forceStarted, supplierRuns, drops, nextId, initKind,
                   published, epoch, afterOk, oldId, ranSupplier, tally, outer>>

(* -------------------------- try_initialize ---------------------------- *)
\* TryLoad without the fast path: force_initialize is called whatever was
\* loaded
TryLoadIgnoresFlag(t) ==
    /\ pc[t] = "try_load"
    /\ seen' = [seen EXCEPT ![t] = is_initialized]
    /\ result' = result
    /\ pc' = [pc EXCEPT ![t] = "lock"]
    /\ UNCHANGED <<lock, is_initialized, cell, alive, op, arg, wasInit,
                   newcell, got, counters, hist>>

\* TryLoad whose fast path returns Ok(()) instead of Err(())
TryLoadReturnsOk(t) ==
    /\ pc[t] = "try_load"
    /\ seen' = [seen EXCEPT ![t] = is_initialized]
    /\ IF is_initialized
       THEN /\ result' = [result EXCEPT ![t] = "Ok"]
            /\ pc' = [pc EXCEPT ![t] = "idle"]
       ELSE /\ result' = result
            /\ pc' = [pc EXCEPT ![t] = "lock"]
    /\ UNCHANGED <<lock, is_initialized, cell, alive, op, arg, wasInit,
                   newcell, got, counters, hist>>

\* lib.rs 82-88: the load of is_initialized; Err(()) if it is true, else
\* the call of force_initialize
TryLoad(t) ==
    /\ pc[t] = "try_load"
    /\ seen' = [seen EXCEPT ![t] = is_initialized]
    /\ IF is_initialized
       THEN /\ result' = [result EXCEPT ![t] = "Err"]
            /\ pc' = [pc EXCEPT ![t] = "idle"]
       ELSE /\ result' = result
            /\ pc' = [pc EXCEPT ![t] = "lock"]
    /\ UNCHANGED <<lock, is_initialized, cell, alive, op, arg, wasInit,
                   newcell, got, counters, hist>>

(* ------------------------------ deref --------------------------------- *)
\* DerefLoad that first waits for the lock to be free
DerefLoadWaitsForLock(t) ==
    /\ pc[t] = "deref_load"
    /\ lock = FALSE
    /\ seen' = [seen EXCEPT ![t] = is_initialized]
    /\ IF is_initialized
       THEN /\ result' = result
            /\ pc' = [pc EXCEPT ![t] = "deref_ref"]
       ELSE /\ result' = [result EXCEPT ![t] = "NotInitialized"]
            /\ pc' = [pc EXCEPT ![t] = "idle"]
    /\ UNCHANGED <<lock, is_initialized, cell, alive, op, arg, wasInit,
                   newcell, got, counters, hist>>

\* DerefLoad without the assert!: the reference is formed whatever was loaded
DerefLoadUnchecked(t) ==
    /\ pc[t] = "deref_load"
    /\ seen' = [seen EXCEPT ![t] = is_initialized]
    /\ result' = result
    /\ pc' = [pc EXCEPT ![t] = "deref_ref"]
    /\ UNCHANGED <<lock, is_initialized, cell, alive, op, arg, wasInit,
                   newcell, got, counters, hist>>

\* lib.rs 96-99: assert!(is_initialized.load(Acquire)): panics if false
DerefLoad(t) ==
    /\ pc[t] = "deref_load"
    /\ seen' = [seen EXCEPT ![t] = is_initialized]
    /\ IF is_initialized
       THEN /\ result' = result
            /\ pc' = [pc EXCEPT ![t] = "deref_ref"]
       ELSE /\ result' = [result EXCEPT ![t] = "NotInitialized"]
            /\ pc' = [pc EXCEPT ![t] = "idle"]
    /\ UNCHANGED <<lock, is_initialized, cell, alive, op, arg, wasInit,
                   newcell, got, counters, hist>>

\* what a read of the slot through a reference can yield: the value if the
\* slot holds a live one; anything (a value, or 0 for garbage) if it was
\* dropped or never written (a dangling reference: undefined behaviour)
SlotRead == IF cell.state = "live" THEN {cell.val} ELSE 0..MaxVal

\* lib.rs 100: &*self.cell.assume_init_ref().get(), and the caller's read
\* through that reference
DerefRead(t) ==
    /\ pc[t] = "deref_ref"
    /\ \E v \in SlotRead : got' = [got EXCEPT ![t] = v]
    /\ result' = [result EXCEPT ![t] = "ref"]
    /\ ep' = [ep EXCEPT ![t] = IF lock THEN 0 ELSE epoch]
    /\ pc' = [pc EXCEPT ![t] = "idle"]
    /\ UNCHANGED <<lock, is_initialized, cell, alive, op, arg, wasInit,
                   newcell, seen, counters, drops, nextId, initKind,
                   published, epoch, afterOk, oldId, ranSupplier, tally, outer>>

(* ----------------------------- teardown ------------------------------- *)
\* The SpinCell goes out of scope.  Ownership makes this exclusive: no call
\* is in progress.  SpinCell has no Drop impl and MaybeUninit never drops
\* its content (lib.rs 5-9), so the slot is not touched.
Destroy ==
    /\ alive
    /\ \A t \in Threads : pc[t] = "idle"
    /\ alive' = FALSE
    /\ UNCHANGED <<lock, is_initialized, cell, pc, op, result, locals,
                   counters, hist>>

Next ==
    \/ \E t \in Threads :
        \/ CallForce(t)
        \/ CallTry(t)
        \/ CallDeref(t)
        \/ AcquireLock(t)
        \/ SwapInitialized(t)
        \/ DropOld(t)
        \/ SupplierReturns(t)
        \/ SupplierPanics(t)
        \/ WriteSlot(t)
        \/ Publish(t)
        \/ ReleaseLock(t)
        \/ TryLoad(t)
        \/ DerefLoad(t)
        \/ DerefRead(t)
    \/ Destroy

Spec == Init /\ [][Next]_vars

(* ---------------------- fair, returning suppliers --------------------- *)
\* the steps thread t takes inside a transition call (lib.rs 40-73, 82-88),
\* every supplier returning
TransitionStep(t) ==
    \/ AcquireLock(t)
    \/ SwapInitialized(t)
    \/ DropOld(t)
    \/ SupplierReturns(t)
    \/ WriteSlot(t)
    \/ Publish(t)
    \/ ReleaseLock(t)
    \/ TryLoad(t)

\* the transition calls alone (deref takes no part in the locking: it
\* neither reads nor writes the lock and writes nothing shared)
NextReturning ==
    \/ \E t \in Threads :
        \/ CallForce(t)
        \/ CallTry(t)
        \/ TransitionStep(t)
    \/ Destroy

\* Threads are preemptively scheduled hardware/OS threads: a thread whose
\* next step stays possible eventually takes it.  Callers are not obliged
\* to make calls, and make MaxCalls of them at most.
SpecFair ==
    /\ Init
    /\ [][NextReturning]_vars
    /\ \A t \in Threads : WF_vars(TransitionStep(t))

(* --------------------------- re-entrant calls ------------------------- *)
\* lib.rs 59 and 64 run user code (the old value's destructor, the
\* supplier) with the lock held; lib.rs 151-158 is a destructor that makes
\* a transition call.  Here that code calls force_initialize on the cell it
\* was called from: the outer call is suspended where it stands and the
\* thread starts the inner call.  There is no step that resumes the outer
\* call: the inner call never gets to return (NotReentrant checks that it
\* never leaves its load or its compare_exchange).
ReenterForce(t) ==
    /\ pc[t] \in {"drop", "supplier"}
    /\ outer[t] = "none"
    /\ calls < MaxCalls
    /\ calls' = calls + 1
    /\ forceStarted' = forceStarted + 1
    /\ outer' = [outer EXCEPT ![t] = pc[t]]
    /\ pc' = [pc EXCEPT ![t] = "lock"]
    /\ UNCHANGED <<lock, is_initialized, cell, alive, op, result, locals,
                   supplierRuns, okReturns, drops, nextId, initKind,
                   published, epoch, ep, afterOk, oldId, ranSupplier, tally>>

\* the same, the user code calling try_initialize
ReenterTry(t) ==
    /\ pc[t] \in {"drop", "supplier"}
    /\ outer[t] = "none"
    /\ calls < MaxCalls
    /\ calls' = calls + 1
    /\ outer' = [outer EXCEPT ![t] = pc[t]]
    /\ pc' = [pc EXCEPT ![t] = "try_load"]
    /\ UNCHANGED <<lock, is_initialized, cell, alive, op, result, locals,
                   forceStarted, supplierRuns, okReturns, drops, nextId,
                   initKind, published, epoch, ep, afterOk, oldId,
                   ranSupplier, tally>>

NextReentrant ==
    \/ Next
    \/ \E t \in Threads :
        \/ ReenterForce(t)
        \/ ReenterTry(t)

SpecReentrant == Init /\ [][NextReentrant]_vars

(* ====================================================================== *)
(* The properties                                                         *)
(* ====================================================================== *)

\* positions between the successful compare_exchange and the lock.store(false)
Critical == {"swap", "drop", "supplier", "write", "publish", "unlock"}
\* positions between is_initialized.swap(false) and is_initialized.store(true)
Window == {"drop", "supplier", "write", "publish"}

AllIdle == \A t \in Threads : pc[t] = "idle"
\* only try_initialize calls have been made on a cell built by uninit()
FreshTryOnly == initKind = "uninit" /\ forceStarted = 0
\* a supplier panicked inside a transition: nobody is in it, the lock is held
Abandoned == lock /\ \A t \in Threads : pc[t] \notin Critical

(* C1.  At-most-once: with only try_initialize calls on a cell built by   *)
(* uninit(), the suppliers run at most once in total and at most one call *)
(* returns Ok; a call that returned Err did not run its supplier; and     *)
(* once all calls have returned normally, exactly one supplier ran and    *)
(* exactly one call returned Ok.                                          *)
AtMostOnce ==
    FreshTryOnly =>
        /\ supplierRuns <= 1
        /\ okReturns <= 1
        /\ \A t \in Threads :
              (op[t] = "try" /\ result[t] = "Err") => ~ranSupplier[t]
        /\ (AllIdle /\ ~lock /\ \E t \in Threads : op[t] = "try")
              => (supplierRuns = 1 /\ okReturns = 1)

(* C2.  Mutual exclusion (I1): at most one thread is between the          *)
(* successful compare_exchange on the lock and the lock-releasing store.  *)
MutualExclusion ==
    Cardinality({t \in Threads : pc[t] \in Critical}) <= 1

\* one thread is inside the transition while another spins on the lock
MutualExclusionWitness ==
    \E t, u \in Threads :
        /\ t # u
        /\ pc[t] \in {"drop", "supplier", "write"}
        /\ pc[u] = "lock"
        /\ lock

(* C3.  With only try_initialize calls made on the cell, no value is ever *)
(* dropped, the slot is written at most once, and every read through      *)
(* deref returns the value the slot holds.                                *)
TryOnlyNeverReplaces ==
    forceStarted = 0 =>
        /\ \A i \in Ids : drops[i] = 0
        /\ nextId <= 2
        /\ \A t \in Threads :
              (op[t] = "deref" /\ result[t] = "ref")
                  => (cell.state = "live" /\ got[t] = cell.val)

(* C4.  Publish-after-write: whenever is_initialized is true, the slot    *)
(* holds a completely written live value that has not been dropped.       *)
PublishAfterWrite ==
    is_initialized =>
        /\ cell.state = "live"
        /\ cell.id \in Ids
        /\ drops[cell.id] = 0

\* a value published by a transition that replaced (and dropped) another
PublishAfterWriteWitness ==
    /\ is_initialized
    /\ cell.id > 1
    /\ \E i \in Ids : drops[i] = 1
    /\ \E t \in Threads : pc[t] = "unlock"

(* C5.  Idempotence: with no force_initialize calls, a try_initialize     *)
(* call that starts after some try_initialize returned Ok does not get    *)
(* past its load of is_initialized: it returns Err and does not run its   *)
(* supplier.                                                              *)
TryIdempotent ==
    \A t \in Threads :
        (forceStarted = 0 /\ op[t] = "try" /\ afterOk[t]) =>
            /\ pc[t] \in {"try_load", "idle"}
            /\ ~ranSupplier[t]
            /\ (pc[t] = "idle" => result[t] = "Err")

(* C6.  Reinitialization replaces the value: a force_initialize that      *)
(* found the cell initialized drops the old value exactly once, before    *)
(* its supplier's result is written; once it has returned, and as long as *)
(* no other transition has acquired the lock since, the cell is           *)
(* initialized with the supplier's result and reads yield that result.    *)
ReinitReplaces ==
    \A t \in Threads :
        (op[t] = "force" /\ wasInit[t]) =>
            /\ pc[t] = "drop" =>
                  (cell.id = oldId[t] /\ cell.state = "live"
                   /\ drops[oldId[t]] = 0)
            /\ pc[t] \in {"supplier", "write", "publish", "unlock", "idle"} =>
                  drops[oldId[t]] = 1
            /\ pc[t] \in {"publish", "unlock"} =>
                  (cell.state = "live" /\ cell.val = arg[t]
                   /\ cell.id # oldId[t])
            /\ (pc[t] = "idle" /\ result[t] = "unit" /\ ep[t] = epoch) =>
                  /\ is_initialized
                  /\ ~lock
                  /\ cell.state = "live"
                  /\ cell.val = arg[t]
                  /\ \A r \in Threads :
                        (op[r] = "deref" /\ result[r] = "ref"
                         /\ ep[r] = epoch) => got[r] = arg[t]

\* new(v); force_initialize(|| w) with w # v; a read that yields w
ReinitReplacesWitness ==
    \E t, r \in Threads :
        /\ op[t] = "force" /\ wasInit[t]
        /\ pc[t] = "idle" /\ result[t] = "unit" /\ ep[t] = epoch
        /\ drops[oldId[t]] = 1
        /\ op[r] = "deref" /\ result[r] = "ref" /\ ep[r] = epoch
        /\ got[r] = arg[t]

(* C7.  Guaranteed lock release: whenever no call is inside a transition  *)
(* (every call that acquired the lock has left it, by returning or by a   *)
(* panicking supplier), the lock is free.                                 *)
LockAlwaysReleased ==
    (\A t \in Threads : pc[t] \notin Critical) => ~lock

(* C8.  Teardown completeness (I5): no value is dropped twice, and once   *)
(* the cell has been destroyed every value ever put in the slot has been  *)
(* dropped exactly once.                                                  *)
TeardownComplete ==
    /\ \A i \in Ids : drops[i] <= 1
    /\ ~alive => \A i \in Ids : (i < nextId => drops[i] = 1)

(* C9.  A deref whose load of is_initialized returned false panics and    *)
(* yields no reference; a deref yields a reference only if its load       *)
(* returned true.                                                         *)
DerefChecked ==
    \A t \in Threads :
        op[t] = "deref" =>
            /\ (pc[t] = "deref_ref" \/ result[t] = "ref") => seen[t]
            /\ (pc[t] = "idle" /\ ~seen[t]) =>
                  (result[t] = "NotInitialized" /\ got[t] = 0)
            /\ (pc[t] = "idle" /\ seen[t]) => result[t] = "ref"

\* a deref that panicked, and another that returned a reference
DerefCheckedWitness ==
    \E t, u \in Threads :
        /\ op[t] = "deref" /\ result[t] = "NotInitialized" /\ ~seen[t]
        /\ op[u] = "deref" /\ result[u] = "ref" /\ seen[u]

\* the step of deref that panics / that yields the reference
DerefFails(t) == pc[t] = "deref_load" /\ pc'[t] = "idle"
DerefSucceeds(t) == pc[t] = "deref_load" /\ pc'[t] = "deref_ref"

(* C10, as claimed.  A deref fails only before any initialization of the  *)
(* cell: once the cell has been initialized, every deref succeeds.        *)
ReadFailsOnlyBeforeInit ==
    [][\A t \in Threads : DerefFails(t) => ~published]_vars

(* C10, amended.  A deref fails exactly when its load happens before any  *)
(* initialization of the cell, or while a transition is between its       *)
(* is_initialized.swap(false) and its is_initialized.store(true), or      *)
(* after such a transition was abandoned by a panicking supplier; in      *)
(* every other state it succeeds.                                         *)
ReadFailsOnlyUnpublished ==
    [][\A t \in Threads :
          /\ DerefFails(t) =>
                (\/ ~published
                 \/ \E u \in Threads : pc[u] \in Window
                 \/ Abandoned)
          /\ DerefSucceeds(t) =>
                (/\ published
                 /\ \A u \in Threads : pc[u] \notin Window
                 /\ ~Abandoned)]_vars

\* a deref that failed on a cell built by new(), while it is being replaced
ReadFailsWitness ==
    \E t, u \in Threads :
        /\ initKind = "new"
        /\ op[t] = "deref" /\ result[t] = "NotInitialized"
        /\ pc[u] \in Window

(* C11.  Lock-free read path: a step of deref leaves lock, is_initialized *)
(* and the slot unchanged, and both steps of deref can be taken in every  *)
(* state, whoever holds the lock: deref never waits.                      *)
DerefLockFree ==
    /\ [][\A t \in Threads :
            (pc[t] \in {"deref_load", "deref_ref"} /\ pc'[t] # pc[t])
                => UNCHANGED <<lock, is_initialized, cell>>]_vars
    /\ [](\A t \in Threads :
            /\ pc[t] = "deref_load" => ENABLED DerefLoad(t)
            /\ pc[t] = "deref_ref" => ENABLED DerefRead(t))

\* a deref that completed with a reference while another thread held the lock
DerefLockFreeWitness ==
    \E t, u \in Threads :
        /\ op[t] = "deref" /\ result[t] = "ref" /\ ep[t] = 0
        /\ lock /\ pc[u] \in Critical

(* C12.  Construction states: as long as no transition has acquired the   *)
(* lock, the lock is free; a cell built by new(v) is initialized, holds v *)
(* and every read returns v; a cell built by uninit() is uninitialized    *)
(* with an empty slot.  Every read of a cell that no transition has       *)
(* published yet fails.                                                   *)
ConstructionStates ==
    /\ epoch = 0 =>
          /\ ~lock
          /\ initKind = "new" =>
                /\ is_initialized
                /\ cell.state = "live" /\ cell.id = 1 /\ cell.val \in Values
                /\ \A t \in Threads :
                      (op[t] = "deref" /\ pc[t] = "idle")
                          => (result[t] = "ref" /\ got[t] = cell.val)
          /\ initKind = "uninit" => (~is_initialized /\ cell = EmptySlot)
    /\ ~published =>
          \A t \in Threads :
              (op[t] = "deref" /\ pc[t] = "idle")
                  => result[t] = "NotInitialized"

\* new(v), then a read that returned v with no transition ever run
ConstructionStatesWitness ==
    \E t \in Threads :
        /\ initKind = "new" /\ epoch = 0
        /\ op[t] = "deref" /\ result[t] = "ref" /\ got[t] = cell.val

(* C13.  After a transition call has returned (force_initialize, or       *)
(* try_initialize with Ok), and as long as no other transition has        *)
(* acquired the lock since, the cell is initialized, the lock is free,    *)
(* the slot holds the result of the call's supplier and reads yield it.   *)
TransitionPostcondition ==
    \A t \in Threads :
        (/\ op[t] \in {"force", "try"}
         /\ pc[t] = "idle"
         /\ result[t] \in {"unit", "Ok"}
         /\ ep[t] = epoch) =>
            /\ is_initialized
            /\ ~lock
            /\ cell = [state |-> "live", id |-> nextId - 1, val |-> arg[t]]
            /\ \A r \in Threads :
                  (op[r] = "deref" /\ pc[r] = "idle" /\ ep[r] = epoch
                   /\ result[r] = "ref") => got[r] = arg[t]

\* uninit(); try_initialize(|| v) returned Ok; a read that yields v
TransitionPostconditionWitness ==
    \E t, r \in Threads :
        /\ initKind = "uninit"
        /\ op[t] = "try" /\ pc[t] = "idle" /\ result[t] = "Ok"
        /\ ep[t] = epoch
        /\ op[r] = "deref" /\ result[r] = "ref" /\ ep[r] = epoch
        /\ got[r] = arg[t]

(* C14.  try_initialize fast path: the step of a try_initialize call      *)
(* whose load of is_initialized returns true ends the call with Err, and  *)
(* leaves lock, is_initialized and the slot unchanged; the call has not   *)
(* acquired the lock nor run its supplier.                                *)
TryFastPath ==
    [][\A t \in Threads :
          (pc[t] = "try_load" /\ is_initialized /\ pc'[t] # pc[t]) =>
              /\ pc'[t] = "idle"
              /\ result'[t] = "Err"
              /\ tally'[t] = NoTally
              /\ UNCHANGED <<lock, is_initialized, cell, epoch,
                             supplierRuns, drops>>]_vars

\* a try_initialize call that took the fast path
TryFastPathWitness ==
    \E t \in Threads :
        op[t] = "try" /\ seen[t] /\ pc[t] = "idle" /\ result[t] = "Err"

(* C17.  One supplier run per transition (I4): no call runs its supplier, *)
(* writes the slot or publishes more than once; a force_initialize call   *)
(* that returned did each exactly once; a try_initialize call that        *)
(* returned Ok ran its supplier exactly once (and wrote and published     *)
(* once), and one that returned Err did none of these.                    *)
OnePerTransition ==
    \A t \in Threads :
        /\ tally[t].runs <= 1 /\ tally[t].writes <= 1 /\ tally[t].pubs <= 1
        /\ (op[t] = "force" /\ pc[t] = "idle" /\ result[t] = "unit")
              => tally[t] = [runs |-> 1, writes |-> 1, pubs |-> 1]
        /\ (op[t] = "try" /\ pc[t] = "idle" /\ result[t] = "Ok")
              => tally[t] = [runs |-> 1, writes |-> 1, pubs |-> 1]
        /\ (op[t] = "try" /\ pc[t] = "idle" /\ result[t] = "Err")
              => tally[t] = NoTally
        /\ (op[t] = "try" /\ pc[t] = "idle" /\ result[t] \in {"Ok", "Err"})
              => (result[t] = "Ok" <=> tally[t].runs = 1)

\* one try_initialize returned Ok and another returned Err
OnePerTransitionWitness ==
    \E t, u \in Threads :
        /\ op[t] = "try" /\ pc[t] = "idle" /\ result[t] = "Ok"
        /\ op[u] = "try" /\ pc[u] = "idle" /\ result[u] = "Err"

(* C18.  Flag/slot bookkeeping: a step that changes is_initialized or the *)
(* slot is a step of a thread inside the transition, with the lock held;  *)
(* the step that frees the lock is the lock.store(false) of the thread    *)
(* inside the transition; and whenever the lock is free, is_initialized   *)
(* is true exactly when the slot holds a live value.                      *)
Bookkeeping ==
    /\ [][/\ (is_initialized' # is_initialized \/ cell' # cell) =>
                (lock /\ \E t \in Threads :
                            pc[t] \in Critical /\ pc'[t] # pc[t])
          /\ (lock /\ ~lock') =>
                \E t \in Threads : pc[t] = "unlock" /\ pc'[t] = "idle"]_vars
    /\ [](~lock => (is_initialized <=> cell.state = "live"))

\* the lock is free again after a transition replaced a value
BookkeepingWitness ==
    /\ ~lock /\ is_initialized /\ cell.state = "live"
    /\ epoch >= 1
    /\ \E i \in Ids : drops[i] = 1

(* C19.  No double drop, no drop of an empty slot: no value is dropped    *)
(* more than once; drop_in_place is about to run only on a slot that      *)
(* holds a live value; ptr::write is about to run only on a slot that     *)
(* holds no live value.                                                   *)
NoDoubleDrop ==
    /\ \A i \in Ids : drops[i] <= 1
    /\ \A t \in Threads :
          /\ pc[t] = "drop" =>
                (cell.state = "live" /\ cell.id \in Ids /\ drops[cell.id] = 0)
          /\ pc[t] = "write" => cell.state # "live"

\* a second replacement is about to write: two values were dropped so far
NoDoubleDropWitness ==
    /\ \E t \in Threads : pc[t] = "write" /\ cell.state = "dropped"
    /\ \E i, j \in Ids : i # j /\ drops[i] = 1 /\ drops[j] = 1

(* C16.  Termination under fairness: with returning suppliers, no         *)
(* re-entry and finitely many transition calls, under weak fairness of    *)
(* every thread all calls eventually have returned and the lock is free   *)
(* from then on; a thread inside a call can always take its next step,    *)
(* except at the compare_exchange while the lock is held.                 *)
Termination ==
    /\ <>[](AllIdle /\ ~lock)
    /\ [](\A t \in Threads :
            (pc[t] # "idle" /\ ~(pc[t] = "lock" /\ lock))
                => ENABLED TransitionStep(t))

\* one call spins on the lock that another call holds
TerminationWitness ==
    \E t, u \in Threads :
        /\ pc[t] = "lock" /\ op[t] \in {"force", "try"}
        /\ pc[u] = "unlock" /\ lock
        /\ ~ENABLED TransitionStep(t)

(* C20.  Transitions are not re-entrant: while a thread runs a transition *)
(* call made from inside its own transition (from the supplier or from    *)
(* the destructor of the replaced value), the lock is held and            *)
(* is_initialized is false, the inner call is at its first load or at the *)
(* compare_exchange, which cannot succeed; the outer call never resumes   *)
(* and the lock is never released.                                        *)
NotReentrant ==
    /\ [](\A t \in Threads :
            outer[t] # "none" =>
                /\ lock
                /\ ~is_initialized
                /\ pc[t] \in {"try_load", "lock"}
                /\ ~ENABLED AcquireLock(t))
    /\ [][\A t \in Threads :
            outer[t] # "none" => (outer'[t] = outer[t] /\ lock')]_vars

\* an inner call spins on the lock its own outer call holds, and so does a
\* call of another thread
NotReentrantWitness ==
    \E t \in Threads :
        /\ outer[t] \in {"drop", "supplier"}
        /\ pc[t] = "lock"
        /\ \E u \in Threads : u # t /\ pc[u] = "lock"

(* C15.  Lazy auto-initializing read: the first read of a cell that was   *)
(* constructed pending (not initialized; the only such constructor of the *)
(* source is uninit(), lib.rs 25-31) initializes the cell: made before    *)
(* any other call, it runs an initializer exactly once, publishes the     *)
(* value and returns a reference to it.  (The rest of the claim, the      *)
(* following try_initialize returning Err and the second read returning   *)
(* the same value, presupposes this.)                                     *)
LazyFirstRead ==
    \A t \in Threads :
        (initKind = "uninit" /\ calls = 1 /\ op[t] = "deref"
         /\ pc[t] = "idle") =>
            /\ result[t] = "ref"
            /\ is_initialized
            /\ supplierRuns = 1
            /\ cell.state = "live" /\ got[t] = cell.val

====
